---- MODULE Spec2Model ----
(***************************************************************************)
(* Model of the Databricks MCP server: the bounded fetcher                 *)
(* (get_with_backoff under the semaphore of get_async_session), the        *)
(* fan-out operations of jobs_client and unity_catalog_client, the tool    *)
(* layer of mcp_server, and the table cache behind find_tables_by_name.    *)
(***************************************************************************)
EXTENDS Integers, Sequences, FiniteSets, TLC

(***************************************************************************)
(* Program constants.                                                      *)
(***************************************************************************)
\* AsyncClientConfig.max_concurrent_requests
max_concurrent_requests == 8
\* get_with_backoff(max_retries=5)
max_retries == 5
\* get_with_backoff(base_delay=0.5), in milliseconds
base_delay == 500
\* CACHE_TTL_SECONDS
CACHE_TTL_SECONDS == 600
\* max_n_recent in the get-job-runs tool
max_n_recent == 5

(***************************************************************************)
(* Bounds of the model.                                                    *)
(***************************************************************************)
\* longest identifier list of a fan-out operation in Spec
MaxIds == 2
\* number of identifiers of the operation in SpecCeiling
CeilingIds == 9
\* number of identifiers of each of the two operations in SpecProcess
ProcessIds == 5
\* responses other than a plain 200 the remote may give in Spec
MaxFaults == 2
\* the same in SpecCeiling and SpecProcess
CeilingFaults == 1
\* number of concurrent fetches in SpecBackoff
BackoffIds == 2
\* seconds the clock advances in one step
TickStep == 300
\* latest time the clock reaches
MaxTime == 900
\* find-tables-by-name invocations in one behaviour
MaxCalls == 3
\* depth of the values and of the masks given to mask_api_response in SpecMask
MaskDepth == 2
\* longest list in those values
MaskListLen == 1

(***************************************************************************)
(* Python values.  Every value carries its type, as isinstance sees it.    *)
(***************************************************************************)
None == [t |-> "none"]
Str(s) == [t |-> "str", s |-> s]
Num(i) == [t |-> "int", i |-> i]
List(l) == [t |-> "list", l |-> l]
Dict(d) == [t |-> "dict", d |-> d]
\* an exception object; str(e) is its msg
Exc(type, msg) == [t |-> "exc", type |-> type, msg |-> msg]
\* the text produced by toon_format.encode: a str, one line per element
Toon(lines) == [t |-> "toon", lines |-> lines]

EmptyDict == Dict(<<>>)
EmptyList == List(<<>>)

\* isinstance(x, str)
IsStr(x) == x.t \in {"str", "toon"}

\* bool(x), the truth value Python's `if x` / `not x` uses
Truthy(x) ==
    CASE x.t = "none" -> FALSE
      [] x.t = "str"  -> x.s # ""
      [] x.t = "toon" -> Len(x.lines) > 0
      [] x.t = "int"  -> x.i # 0
      [] x.t = "list" -> Len(x.l) > 0
      [] x.t = "dict" -> DOMAIN x.d # {}
      [] x.t = "exc"  -> TRUE

\* l[:amount] of a Python list
Slice(l, amount) ==
    IF amount >= 0
    THEN SubSeq(l, 1, IF amount < Len(l) THEN amount ELSE Len(l))
    ELSE SubSeq(l, 1, IF Len(l) + amount > 0 THEN Len(l) + amount ELSE 0)

\* [x for sub in ls for x in sub], ls a sequence of List values
RECURSIVE Flatten(_)
Flatten(ls) ==
    IF Len(ls) = 0 THEN << >> ELSE Head(ls).l \o Flatten(Tail(ls))

(***************************************************************************)
(* utils.mask_api_response                                                 *)
(***************************************************************************)
RECURSIVE mask_api_response(_, _)
mask_api_response(data, mask) ==
    IF data.t = "dict" /\ mask.t = "dict"
    THEN Dict([key \in (DOMAIN mask.d) \cap (DOMAIN data.d) |->
                   mask_api_response(data.d[key], mask.d[key])])
    ELSE IF data.t = "list"
    THEN List([j \in 1..Len(data.l) |-> mask_api_response(data.l[j], mask)])
    ELSE data

(***************************************************************************)
(* toon_format.encode: the content becomes text.  A list is written as a   *)
(* header line followed by one line per element, in the list's order; any  *)
(* other value is one block.  The result is a str, not a list or a dict.   *)
(***************************************************************************)
encode(content) ==
    IF content.t = "list"
    THEN Toon(<<[header |-> Len(content.l)]>> \o
              [j \in 1..Len(content.l) |-> [line |-> content.l[j]]])
    ELSE Toon(<<[line |-> content]>>)

\* the line of an encoded list that carries its i-th element
ToonRow(text, i) == text.lines[i + 1].line

(***************************************************************************)
(* utils.format_toolcall_response                                          *)
(***************************************************************************)
format_toolcall_response(success, content, error) ==
    [success |-> success,
     content |-> IF Truthy(content) THEN encode(content) ELSE None,
     error   |-> IF Truthy(error) THEN Str(error.msg) ELSE None]

(***************************************************************************)
(* Identifiers.  A dotted path is the join of its parts; str.split(".")    *)
(* recovers the parts of the paths the model uses.                         *)
(***************************************************************************)
PathNames == {"c1", "c2", "s1", "information_schema", "t1"}
PathParts == UNION {[1..n -> PathNames] : n \in 1..3}

RECURSIVE JoinDot(_)
JoinDot(parts) ==
    IF Len(parts) = 1 THEN parts[1] ELSE parts[1] \o "." \o JoinDot(Tail(parts))

SplitDot(s) == CHOOSE parts \in PathParts : JoinDot(parts) = s

(***************************************************************************)
(* The masks.  jobs_client and unity_catalog_client load them from the     *)
(* masks directory; response_masks.py holds the job and table-detail ones. *)
(***************************************************************************)
Leaf == EmptyDict

table_details_mask ==
    Dict([name |-> Leaf, schema_name |-> Leaf, catalog_name |-> Leaf,
          comment |-> Leaf,
          columns |-> Dict([name |-> Leaf, type_text |-> Leaf, comment |-> Leaf])])

get_jobs_mask ==
    Dict([job_id |-> Leaf,
          settings |-> Dict([name |-> Leaf, description |-> Leaf]),
          tables |-> EmptyList])

jobs_mask == Dict([jobs |-> get_jobs_mask])

jobs_details_mask ==
    Dict([job_id |-> Leaf, name |-> Leaf, creator_user_name |-> Leaf,
          run_as_user_name |-> Leaf,
          settings |-> Dict([
              continuous |-> Dict([pause_status |-> Leaf]),
              deployment |-> Dict([kind |-> Leaf]),
              format |-> Leaf,
              parameters |-> Dict([default |-> Leaf, name |-> Leaf]),
              schedule |-> Dict([pause_status |-> Leaf,
                                 quartz_cron_expression |-> Leaf,
                                 timezone_id |-> Leaf]),
              tasks |-> EmptyList])])

get_jobs_runs_mask ==
    Dict([job_id |-> Leaf, run_id |-> Leaf, creator_user_name |-> Leaf,
          state |-> Dict([life_cycle_state |-> Leaf, result_state |-> Leaf,
                          state_message |-> Leaf]),
          job_arameters |-> Dict([name |-> Leaf, default |-> Leaf]),
          start_time |-> Leaf, run_duration |-> Leaf, trigger |-> Leaf,
          run_type |-> Leaf,
          status |-> Dict([state |-> Leaf,
                           termination_details |-> Dict([type |-> Leaf,
                                                         message |-> Leaf])])])

jobs_runs_mask == Dict([runs |-> get_jobs_runs_mask])

catalog_mask == Dict([catalogs |-> Dict([name |-> Leaf])])

schemas_mask == Dict([schemas |-> Dict([name |-> Leaf, full_name |-> Leaf])])

tables_mask == Dict([tables |-> Dict([name |-> Leaf, full_name |-> Leaf])])

(***************************************************************************)
(* The remote: the JSON body it answers a successful request with.  The    *)
(* variant "empty" is the body {} of a resource with nothing to list.      *)
(***************************************************************************)
\* runs the remote lists for one job
RemoteRuns == 6

RemoteRun(job_id, r) ==
    Dict([job_id |-> Num(job_id), run_id |-> Num(r), run_type |-> Str("JOB_RUN"),
          state |-> Dict([life_cycle_state |-> Str("TERMINATED"),
                          result_state |-> Str("SUCCESS"),
                          user_cancelled_or_timedout |-> Str("false")]),
          number_in_job |-> Num(r)])

RemoteBody(kind, id, variant) ==
    IF variant = "empty" THEN EmptyDict
    ELSE CASE kind = "get_catalogs" ->
                Dict([catalogs |-> List(<<
                    Dict([name |-> Str("c1"), owner |-> Str("admin"),
                          created_by |-> Str("admin")]),
                    Dict([name |-> Str("c2"), owner |-> Str("System user"),
                          created_by |-> Str("System user")])>>)])
           [] kind = "get_schemas_in_catalogs" ->
                Dict([schemas |-> List(<<
                    Dict([name |-> Str("s1"), catalog_name |-> id,
                          full_name |-> Str(id.s \o ".s1")]),
                    Dict([name |-> Str("information_schema"), catalog_name |-> id,
                          full_name |-> Str(id.s \o ".information_schema")])>>)])
           [] kind = "get_tables_in_catalogs_schemas" ->
                Dict([tables |-> List(<<
                    Dict([name |-> Str("t1"), table_type |-> Str("MANAGED"),
                          full_name |-> Str(id.s \o ".t1")])>>)])
           [] kind = "get_tables_details" ->
                Dict([name |-> Str(SplitDot(id.s)[Len(SplitDot(id.s))]),
                      full_name |-> id, owner |-> Str("admin"),
                      comment |-> Str("a table"),
                      columns |-> List(<<
                          Dict([name |-> Str("id"), type_text |-> Str("int"),
                                position |-> Num(0)])>>)])
           [] kind = "get_jobs" ->
                Dict([jobs |-> List(<<
                    Dict([job_id |-> Num(1), created_time |-> Num(7),
                          settings |-> Dict([name |-> Str("nightly"),
                                             format |-> Str("MULTI_TASK")])])>>),
                      has_more |-> Str("false")])
           [] kind = "get_job_details" ->
                Dict([job_id |-> id, creator_user_name |-> Str("admin"),
                      created_time |-> Num(7),
                      settings |-> Dict([name |-> Str("nightly"),
                                         format |-> Str("MULTI_TASK"),
                                         max_concurrent_runs |-> Num(1)])])
           [] kind = "get_job_runs" ->
                Dict([runs |-> List([r \in 1..RemoteRuns |-> RemoteRun(id.i, r)]),
                      has_more |-> Str("false")])

(***************************************************************************)
(* The per-identifier coroutines of the two clients, from the body that    *)
(* get_with_backoff returned to the value (or the exception) they end in.  *)
(***************************************************************************)
\* d[key] of a dict: the value, or KeyError
Subscript(d, key) ==
    IF key \in DOMAIN d.d THEN d.d[key] ELSE Exc("KeyError", "'" \o key \o "'")

\* d.get(key, default)
DictGet(d, key, default) ==
    IF key \in DOMAIN d.d THEN d.d[key] ELSE default

FromEndpoint(kind, data, amount) ==
    CASE kind = "get_catalogs" ->
            Subscript(mask_api_response(data, catalog_mask), "catalogs")
      [] kind = "get_schemas_in_catalogs" ->
            Subscript(mask_api_response(data, schemas_mask), "schemas")
      [] kind = "get_tables_in_catalogs_schemas" ->
            DictGet(mask_api_response(data, tables_mask), "tables", EmptyList)
      [] kind = "get_tables_details" ->
            mask_api_response(data, table_details_mask)
      [] kind = "get_jobs" ->
            Subscript(mask_api_response(data, jobs_mask), "jobs")
      [] kind = "get_job_details" ->
            mask_api_response(data, jobs_details_mask)
      [] kind = "get_job_runs" ->
            List(Slice(DictGet(mask_api_response(data, jobs_runs_mask),
                               "runs", EmptyList).l, amount))

\* what the operation puts in the envelope from the joined results
Aggregate(kind, results) ==
    CASE kind \in {"get_catalogs", "get_jobs"} -> results[1]
      [] kind \in {"get_schemas_in_catalogs", "get_tables_in_catalogs_schemas"} ->
            List(Flatten(results))
      [] OTHER -> List(results)

(***************************************************************************)
(* State.                                                                  *)
(***************************************************************************)
VARIABLES
    env,        \* which of DATABRICKS_HOST / DATABRICKS_TOKEN are set
    req,        \* per operation: the tool invocation (kind, ids, amount)
    opPc,       \* per operation: "idle", "gather", "returned", "raised"
    opResult,   \* per operation: the envelope returned, or the exception raised
    semaphore,  \* per operation: free slots of the semaphore of its session
    session,    \* per operation: "none", "open", "closed"
    gatherExc,  \* per operation: the first exception asyncio.gather received
    fetch,      \* per operation: one get_with_backoff coroutine per identifier
    faults,     \* responses other than a plain 200 the remote may still give
    overtaken,  \* history, per operation: a fetch ended before an earlier one
    table_cache,\* unity_catalog_client._table_cache
    now,        \* time.time(), in seconds
    call,       \* per caller: its find-tables-by-name invocation
    ncalls,     \* find-tables-by-name invocations made so far
    lastWrite,  \* history: the refresh that wrote table_cache last
    masking     \* one call of mask_api_response: its arguments and its result

fetchVars == <<env, req, opPc, opResult, semaphore, session, gatherExc, fetch, faults,
              overtaken>>
cacheVars == <<table_cache, now, call, ncalls, lastWrite>>
vars == <<env, req, opPc, opResult, semaphore, session, gatherExc, fetch, faults,
          overtaken, table_cache, now, call, ncalls, lastWrite, masking>>

\* the tool invocations that may run concurrently in the process
Ops == {1, 2}

SingleKinds == {"get_catalogs", "get_jobs"}
FanOutKinds == {"get_schemas_in_catalogs", "get_tables_in_catalogs_schemas",
                "get_tables_details", "get_job_details", "get_job_runs"}

NoReq == [kind |-> "none", ids |-> << >>, amount |-> 0]

\* number of per-identifier coroutines the operation creates
NumFetches(r) == IF r.kind \in SingleKinds THEN 1 ELSE Len(r.ids)

FetchId(r, i) == IF r.kind \in SingleKinds THEN None ELSE r.ids[i]

\* attempts: requests sent; throttled: 429 answers received; slept: total
\* of the sleeps completed, in milliseconds; status: response.status of
\* the last response, 0 before the first
NewFetch == [pc |-> "acquire", attempts |-> 0, throttled |-> 0,
             delay |-> base_delay, slept |-> 0, status |-> 0, result |-> None]

\* EarlyError without the test of DATABRICKS_TOKEN
EarlyErrorHostOnly(r, i) ==
    IF r.kind = "get_tables_in_catalogs_schemas" /\ Len(SplitDot(r.ids[i].s)) # 2
    THEN Exc("ValueError", "wrong number of values to unpack")
    ELSE IF ~env.host
    THEN Exc("ValueError", "DATABRICKS_HOST environment variable is not set")
    ELSE None

\* the exception a coroutine raises before its retry loop, if any:
\* the unpacking of catalog_schema.split("."), then the two environment tests
EarlyError(r, i) ==
    IF r.kind = "get_tables_in_catalogs_schemas" /\ Len(SplitDot(r.ids[i].s)) # 2
    THEN Exc("ValueError", "wrong number of values to unpack")
    ELSE IF ~env.host
    THEN Exc("ValueError", "DATABRICKS_HOST environment variable is not set")
    ELSE IF ~env.token
    THEN Exc("ValueError", "DATABRICKS_TOKEN environment variable is not set")
    ELSE None

\* requests that have been sent and not yet answered
InFlightOf(o) == {i \in DOMAIN fetch[o] : fetch[o][i].pc = "inflight"}
InFlight(o) == Cardinality(InFlightOf(o))

\* slots of the operation's semaphore that are held
Held(o) == Cardinality({i \in DOMAIN fetch[o] : fetch[o][i].pc \in {"inflight", "sleep"}})

(***************************************************************************)
(* The tool layer of mcp_server and the operation it delegates to, up to   *)
(* `await asyncio.gather(...)`.  The event loop runs the new coroutines in *)
(* the order of the identifiers, each up to its first suspension: one that *)
(* fails before its loop has failed, the first max_concurrent_requests of  *)
(* the others hold a slot with their request sent, the rest wait in        *)
(* semaphore.acquire.                                                      *)
(***************************************************************************)
Runnable(r) == {i \in 1..NumFetches(r) : EarlyError(r, i) = None}

Launch(r) ==
    [i \in 1..NumFetches(r) |->
        IF EarlyError(r, i) # None
        THEN [NewFetch EXCEPT !.pc = "failed", !.result = EarlyError(r, i)]
        ELSE IF Cardinality({j \in Runnable(r) : j < i}) < max_concurrent_requests
        THEN [NewFetch EXCEPT !.pc = "inflight", !.attempts = 1]
        ELSE NewFetch]

\* the exception gather receives first from the launch, if any
LaunchExc(r) ==
    LET bad == (1..NumFetches(r)) \ Runnable(r)
    IN  IF bad = {} THEN None
        ELSE EarlyError(r, CHOOSE i \in bad : \A j \in bad : i <= j)

Invoke(o) ==
    /\ opPc[o] = "idle"
    /\ req[o].kind # "none"
    /\ IF req[o].kind = "get_job_runs" /\ req[o].amount > max_n_recent
       THEN /\ opPc' = [opPc EXCEPT ![o] = "raised"]
            /\ opResult' = [opResult EXCEPT
                   ![o] = Exc("ValueError", "n_recent cannot exceed 5")]
            /\ UNCHANGED <<semaphore, session, fetch, gatherExc>>
       ELSE /\ opPc' = [opPc EXCEPT ![o] = "gather"]
            /\ session' = [session EXCEPT ![o] = "open"]
            /\ fetch' = [fetch EXCEPT ![o] = Launch(req[o])]
            /\ semaphore' = [semaphore EXCEPT
                   ![o] = max_concurrent_requests
                          - Cardinality({i \in 1..NumFetches(req[o]) :
                                            Launch(req[o])[i].pc = "inflight"})]
            /\ gatherExc' = [gatherExc EXCEPT ![o] = LaunchExc(req[o])]
            /\ UNCHANGED opResult
    /\ UNCHANGED <<env, req, faults, overtaken>>
    /\ UNCHANGED <<cacheVars, masking>>

(***************************************************************************)
(* utils.get_with_backoff, one action per suspension point.                *)
(***************************************************************************)
\* the coroutine ends with exception e; gather keeps the first one it sees
Raise(o, i, e) ==
    /\ fetch' = [fetch EXCEPT ![o][i].pc = "failed", ![o][i].result = e]
    /\ gatherExc' = [gatherExc EXCEPT
           ![o] = IF opPc[o] = "gather" /\ gatherExc[o] = None THEN e ELSE @]

\* the same, after a response with the given status
RaiseOn(o, i, status, e) ==
    /\ fetch' = [fetch EXCEPT ![o][i].pc = "failed", ![o][i].status = status,
                              ![o][i].result = e]
    /\ gatherExc' = [gatherExc EXCEPT
           ![o] = IF opPc[o] = "gather" /\ gatherExc[o] = None THEN e ELSE @]

\* Acquire without the wait for a free slot
AcquireUnguarded(o, i) ==
    /\ i \in DOMAIN fetch[o]
    /\ fetch[o][i].pc = "acquire"
    /\ fetch[o][i].attempts < max_retries
    /\ IF session[o] = "closed"
       THEN \* session.get on a closed session raises; the slot is given back
            /\ Raise(o, i, Exc("RuntimeError", "Session is closed"))
            /\ UNCHANGED semaphore
       ELSE /\ semaphore' = [semaphore EXCEPT ![o] = @ - 1]
            /\ fetch' = [fetch EXCEPT ![o][i].pc = "inflight",
                                      ![o][i].attempts = @ + 1]
            /\ UNCHANGED gatherExc
    /\ UNCHANGED <<env, req, opPc, opResult, session, faults, overtaken>>
    /\ UNCHANGED <<cacheVars, masking>>

\* `async with semaphore, session.get(...)`: take a slot, send the request
Acquire(o, i) ==
    /\ i \in DOMAIN fetch[o]
    /\ fetch[o][i].pc = "acquire"
    /\ fetch[o][i].attempts < max_retries
    /\ semaphore[o] > 0
    /\ IF session[o] = "closed"
       THEN \* session.get on a closed session raises; the slot is given back
            /\ Raise(o, i, Exc("RuntimeError", "Session is closed"))
            /\ UNCHANGED semaphore
       ELSE /\ semaphore' = [semaphore EXCEPT ![o] = @ - 1]
            /\ fetch' = [fetch EXCEPT ![o][i].pc = "inflight",
                                      ![o][i].attempts = @ + 1]
            /\ UNCHANGED gatherExc
    /\ UNCHANGED <<env, req, opPc, opResult, session, faults, overtaken>>
    /\ UNCHANGED <<cacheVars, masking>>

\* RespondOk that leaves the block without giving the slot back
RespondOkKeepsSlot(o, i, variant) ==
    /\ i \in DOMAIN fetch[o]
    /\ fetch[o][i].pc = "inflight"
    /\ session[o] = "open"
    /\ variant = "empty" => faults > 0
    /\ faults' = IF variant = "empty" THEN faults - 1 ELSE faults
    /\ UNCHANGED semaphore
    /\ LET out == FromEndpoint(req[o].kind,
                               RemoteBody(req[o].kind, FetchId(req[o], i), variant),
                               req[o].amount)
       IN  IF out.t = "exc"
           THEN RaiseOn(o, i, 200, out)
           ELSE /\ fetch' = [fetch EXCEPT ![o][i].pc = "done", ![o][i].status = 200,
                                          ![o][i].result = out]
                /\ UNCHANGED gatherExc
    /\ overtaken' = [overtaken EXCEPT
           ![o] = @ \/ \E j \in 1..(i - 1) : fetch[o][j].pc \notin {"done", "failed"}]
    /\ UNCHANGED <<env, req, opPc, opResult, session>>
    /\ UNCHANGED <<cacheVars, masking>>

\* the response is a success: raise_for_status passes, the body is returned
\* to the client coroutine, which masks it
RespondOk(o, i, variant) ==
    /\ i \in DOMAIN fetch[o]
    /\ fetch[o][i].pc = "inflight"
    /\ session[o] = "open"
    /\ variant = "empty" => faults > 0
    /\ faults' = IF variant = "empty" THEN faults - 1 ELSE faults
    /\ semaphore' = [semaphore EXCEPT ![o] = @ + 1]
    /\ LET out == FromEndpoint(req[o].kind,
                               RemoteBody(req[o].kind, FetchId(req[o], i), variant),
                               req[o].amount)
       IN  IF out.t = "exc"
           THEN RaiseOn(o, i, 200, out)
           ELSE /\ fetch' = [fetch EXCEPT ![o][i].pc = "done", ![o][i].status = 200,
                                          ![o][i].result = out]
                /\ UNCHANGED gatherExc
    /\ overtaken' = [overtaken EXCEPT
           ![o] = @ \/ \E j \in 1..(i - 1) : fetch[o][j].pc \notin {"done", "failed"}]
    /\ UNCHANGED <<env, req, opPc, opResult, session>>
    /\ UNCHANGED <<cacheVars, masking>>

\* the response is 429: the coroutine sleeps, inside the `async with` block
Respond429(o, i) ==
    /\ i \in DOMAIN fetch[o]
    /\ fetch[o][i].pc = "inflight"
    /\ session[o] = "open"
    /\ faults > 0
    /\ faults' = faults - 1
    /\ fetch' = [fetch EXCEPT ![o][i].pc = "sleep", ![o][i].status = 429,
                              ![o][i].throttled = @ + 1]
    /\ UNCHANGED <<env, req, opPc, opResult, semaphore, session, gatherExc, overtaken>>
    /\ UNCHANGED <<cacheVars, masking>>

\* RespondError that backs off and tries again, as for a 429
RespondErrorRetried(o, i) ==
    /\ i \in DOMAIN fetch[o]
    /\ fetch[o][i].pc = "inflight"
    /\ session[o] = "open"
    /\ faults > 0
    /\ faults' = faults - 1
    /\ fetch' = [fetch EXCEPT ![o][i].pc = "sleep", ![o][i].status = 500]
    /\ UNCHANGED <<env, req, opPc, opResult, semaphore, session, gatherExc, overtaken>>
    /\ UNCHANGED <<cacheVars, masking>>

\* any other status: raise_for_status raises, the block is left
RespondError(o, i) ==
    /\ i \in DOMAIN fetch[o]
    /\ fetch[o][i].pc = "inflight"
    /\ session[o] = "open"
    /\ faults > 0
    /\ faults' = faults - 1
    /\ semaphore' = [semaphore EXCEPT ![o] = @ + 1]
    /\ RaiseOn(o, i, 500, Exc("ClientResponseError", "500, message='Internal Server Error'"))
    /\ UNCHANGED <<env, req, opPc, opResult, session, overtaken>>
    /\ UNCHANGED <<cacheVars, masking>>

\* Wake with a delay that is not doubled
WakeFixedDelay(o, i) ==
    /\ i \in DOMAIN fetch[o]
    /\ fetch[o][i].pc = "sleep"
    /\ semaphore' = [semaphore EXCEPT ![o] = @ + 1]
    /\ IF fetch[o][i].attempts < max_retries
       THEN /\ fetch' = [fetch EXCEPT ![o][i].pc = "acquire",
                                      ![o][i].slept = @ + fetch[o][i].delay,
                                      ![o][i].delay = @]
            /\ UNCHANGED gatherExc
       ELSE /\ fetch' = [fetch EXCEPT ![o][i].pc = "failed",
                                      ![o][i].slept = @ + fetch[o][i].delay,
                                      ![o][i].delay = @,
                                      ![o][i].result =
                                          Exc("MaxRetriesExceededError", "Max retries 5 exceeded")]
            /\ gatherExc' = [gatherExc EXCEPT
                   ![o] = IF opPc[o] = "gather" /\ gatherExc[o] = None
                          THEN Exc("MaxRetriesExceededError", "Max retries 5 exceeded")
                          ELSE @]
    /\ UNCHANGED <<env, req, opPc, opResult, session, faults, overtaken>>
    /\ UNCHANGED <<cacheVars, masking>>

\* Wake with a loop that goes round once more
WakeOneMore(o, i) ==
    /\ i \in DOMAIN fetch[o]
    /\ fetch[o][i].pc = "sleep"
    /\ semaphore' = [semaphore EXCEPT ![o] = @ + 1]
    /\ IF fetch[o][i].attempts < max_retries + 1
       THEN /\ fetch' = [fetch EXCEPT ![o][i].pc = "acquire",
                                      ![o][i].slept = @ + fetch[o][i].delay,
                                      ![o][i].delay = 2 * @]
            /\ UNCHANGED gatherExc
       ELSE /\ fetch' = [fetch EXCEPT ![o][i].pc = "failed",
                                      ![o][i].slept = @ + fetch[o][i].delay,
                                      ![o][i].delay = 2 * @,
                                      ![o][i].result =
                                          Exc("MaxRetriesExceededError", "Max retries 5 exceeded")]
            /\ gatherExc' = [gatherExc EXCEPT
                   ![o] = IF opPc[o] = "gather" /\ gatherExc[o] = None
                          THEN Exc("MaxRetriesExceededError", "Max retries 5 exceeded")
                          ELSE @]
    /\ UNCHANGED <<env, req, opPc, opResult, session, faults, overtaken>>
    /\ UNCHANGED <<cacheVars, masking>>

\* asyncio.sleep(delay) is over: double the delay, leave the block, and
\* either go round the loop or fall out of it
Wake(o, i) ==
    /\ i \in DOMAIN fetch[o]
    /\ fetch[o][i].pc = "sleep"
    /\ semaphore' = [semaphore EXCEPT ![o] = @ + 1]
    /\ IF fetch[o][i].attempts < max_retries
       THEN /\ fetch' = [fetch EXCEPT ![o][i].pc = "acquire",
                                      ![o][i].slept = @ + fetch[o][i].delay,
                                      ![o][i].delay = 2 * @]
            /\ UNCHANGED gatherExc
       ELSE /\ fetch' = [fetch EXCEPT ![o][i].pc = "failed",
                                      ![o][i].slept = @ + fetch[o][i].delay,
                                      ![o][i].delay = 2 * @,
                                      ![o][i].result =
                                          Exc("MaxRetriesExceededError", "Max retries 5 exceeded")]
            /\ gatherExc' = [gatherExc EXCEPT
                   ![o] = IF opPc[o] = "gather" /\ gatherExc[o] = None
                          THEN Exc("MaxRetriesExceededError", "Max retries 5 exceeded")
                          ELSE @]
    /\ UNCHANGED <<env, req, opPc, opResult, session, faults, overtaken>>
    /\ UNCHANGED <<cacheVars, masking>>

(***************************************************************************)
(* The operation after `await asyncio.gather(...)`: the envelope, and the  *)
(* exit from get_async_session, which closes the session.                  *)
(***************************************************************************)
\* the results in the reverse of the order of the identifiers
ResultsReversed(o) ==
    [i \in DOMAIN fetch[o] |-> fetch[o][Len(fetch[o]) + 1 - i].result]

\* what gather returns: the results in the order of the coroutines
Results(o) == [i \in DOMAIN fetch[o] |-> fetch[o][i].result]

\* leaving `async with aiohttp.ClientSession()` closes the connections: a
\* request still in flight is aborted and its coroutine leaves the block
CloseSession(o) ==
    /\ session' = [session EXCEPT ![o] = "closed"]
    /\ fetch' = [fetch EXCEPT ![o] =
           [i \in DOMAIN fetch[o] |->
               IF fetch[o][i].pc = "inflight"
               THEN [fetch[o][i] EXCEPT
                        !.pc = "failed",
                        !.result = Exc("ClientConnectionError", "Connection closed")]
               ELSE fetch[o][i]]]
    /\ semaphore' = [semaphore EXCEPT ![o] = @ + InFlight(o)]

GatherReturn(o) ==
    /\ opPc[o] = "gather"
    /\ gatherExc[o] = None
    /\ \A i \in DOMAIN fetch[o] : fetch[o][i].pc = "done"
    /\ opResult' = [opResult EXCEPT
           ![o] = format_toolcall_response(TRUE, Aggregate(req[o].kind, Results(o)), None)]
    /\ opPc' = [opPc EXCEPT ![o] = "returned"]
    /\ CloseSession(o)
    /\ UNCHANGED <<env, req, gatherExc, faults, overtaken>>
    /\ UNCHANGED <<cacheVars, masking>>

\* GatherRaise that keeps what the other fetches returned
GatherRaiseBestEffort(o) ==
    /\ opPc[o] = "gather"
    /\ gatherExc[o] # None
    /\ opResult' = [opResult EXCEPT
           ![o] = format_toolcall_response(TRUE,
                      List(SelectSeq(Results(o), LAMBDA r : r.t \notin {"exc", "none"})), None)]
    /\ opPc' = [opPc EXCEPT ![o] = "returned"]
    /\ CloseSession(o)
    /\ UNCHANGED <<env, req, gatherExc, faults, overtaken>>
    /\ UNCHANGED <<cacheVars, masking>>

GatherRaise(o) ==
    /\ opPc[o] = "gather"
    /\ gatherExc[o] # None
    /\ opResult' = [opResult EXCEPT
           ![o] = format_toolcall_response(FALSE, None, gatherExc[o])]
    /\ opPc' = [opPc EXCEPT ![o] = "returned"]
    /\ CloseSession(o)
    /\ UNCHANGED <<env, req, gatherExc, faults, overtaken>>
    /\ UNCHANGED <<cacheVars, masking>>

Next ==
    \/ \E o \in Ops : Invoke(o)
    \/ \E o \in Ops : \E i \in DOMAIN fetch[o] : Acquire(o, i)
    \/ \E o \in Ops : \E i \in DOMAIN fetch[o] :
           \E variant \in {"full", "empty"} : RespondOk(o, i, variant)
    \/ \E o \in Ops : \E i \in DOMAIN fetch[o] : Respond429(o, i)
    \/ \E o \in Ops : \E i \in DOMAIN fetch[o] : RespondError(o, i)
    \/ \E o \in Ops : \E i \in DOMAIN fetch[o] : Wake(o, i)
    \/ \E o \in Ops : GatherReturn(o)
    \/ \E o \in Ops : GatherRaise(o)

(***************************************************************************)
(* unity_catalog_client._get_all_tables.  The three operations it awaits   *)
(* are the ones modelled above; here each is taken by its outcome: "fail"  *)
(* (a fetch raised, the envelope is the failure form), "empty" (the remote *)
(* listed nothing) or "full".                                              *)
(***************************************************************************)
Outcomes == {"fail", "empty", "full"}

\* the envelope operation `kind` returns for identifiers ids under outcome
OpResponse(kind, ids, outcome) ==
    CASE outcome = "fail" ->
            format_toolcall_response(FALSE, None,
                Exc("ClientResponseError", "500, message='Internal Server Error'"))
      [] outcome = "empty" ->
            format_toolcall_response(TRUE, EmptyList, None)
      [] outcome = "full" ->
            format_toolcall_response(TRUE,
                Aggregate(kind,
                    [j \in 1..(IF kind \in SingleKinds THEN 1 ELSE Len(ids)) |->
                        FromEndpoint(kind,
                            RemoteBody(kind, IF kind \in SingleKinds THEN None ELSE ids[j],
                                       "full"), 0)]),
                None)

\* the items a `for` loop over x visits: the elements of a list, the
\* characters of a str (each a str of length one)
Iterate(x) ==
    CASE x.t = "list" -> x.l
      [] x.t = "toon" -> [j \in 1..Len(x.lines) |-> Str("c")]
      [] x.t = "str"  -> IF x.s = "" THEN << >> ELSE <<Str("c")>>
      [] OTHER -> << >>

\* [item[key] for item in x]
Pluck(x, key) ==
    IF x.t = "none"
    THEN Exc("TypeError", "'NoneType' object is not iterable")
    ELSE IF \E j \in 1..Len(Iterate(x)) : Iterate(x)[j].t # "dict"
    THEN Exc("TypeError", "string indices must be integers, not 'str'")
    ELSE IF \E j \in 1..Len(Iterate(x)) : key \notin DOMAIN Iterate(x)[j].d
    THEN Exc("KeyError", "'" \o key \o "'")
    ELSE List([j \in 1..Len(Iterate(x)) |-> Iterate(x)[j].d[key]])

\* value: the list returned or the exception raised; walked: how many of
\* the three operations were called; catalogs: the content get_catalogs
\* answered; catalog_names, catalog_schemas: the arguments of the two
\* fan-outs, << >> for one that was not called
_get_all_tables(out) ==
    LET catalogs_response == OpResponse("get_catalogs", << >>, out.catalogs)
        stop == [value |-> EmptyList, walked |-> 1,
                 catalogs |-> catalogs_response.content,
                 catalog_names |-> << >>, catalog_schemas |-> << >>]
    IN
    IF ~catalogs_response.success \/ ~Truthy(catalogs_response.content)
    THEN stop
    ELSE
    LET catalog_names == Pluck(catalogs_response.content, "name")
    IN
    IF catalog_names.t = "exc" THEN [stop EXCEPT !.value = catalog_names]
    ELSE
    LET schemas_response ==
            OpResponse("get_schemas_in_catalogs", catalog_names.l, out.schemas)
        stop2 == [stop EXCEPT !.walked = 2, !.catalog_names = catalog_names.l]
    IN
    IF ~schemas_response.success \/ ~Truthy(schemas_response.content)
    THEN stop2
    ELSE
    LET catalog_schemas == Pluck(schemas_response.content, "full_name")
    IN
    IF catalog_schemas.t = "exc" THEN [stop2 EXCEPT !.value = catalog_schemas]
    ELSE
    LET tables_response ==
            OpResponse("get_tables_in_catalogs_schemas", catalog_schemas.l, out.tables)
        stop3 == [stop2 EXCEPT !.walked = 3, !.catalog_schemas = catalog_schemas.l]
    IN
    IF ~tables_response.success
    THEN stop3
    ELSE [stop3 EXCEPT !.value = Pluck(tables_response.content, "full_name")]

(***************************************************************************)
(* rapidfuzz.process.extract: at most `limit` (choice, score, index)       *)
(* tuples.  The scores and the ranking are not modelled.                   *)
(***************************************************************************)
extract(choices, limit) ==
    List([j \in 1..(IF limit < Len(choices.l) THEN limit ELSE Len(choices.l)) |->
             [t |-> "tuple", choice |-> choices.l[j], index |-> j - 1]])

\* find_tables_by_name after `await _get_all_tables_cached(...)`
Matches(all_tables, limit) ==
    IF ~Truthy(all_tables) THEN EmptyList ELSE extract(all_tables, limit)

(***************************************************************************)
(* The find-tables-by-name tool: mcp_server.find_tables_by_name,           *)
(* unity_catalog_client.find_tables_by_name and _get_all_tables_cached.    *)
(***************************************************************************)
Callers == {1, 2}

\* default of the tool's `limit` parameter
DefaultLimit == 10

NoCall == [pc |-> "idle", force_refresh |-> FALSE, current_time |-> 0,
           cache_timestamp |-> None, cached_tables |-> EmptyList,
           fresh |-> FALSE, walked |-> 0, catalogs |-> None,
           catalog_names |-> << >>, catalog_schemas |-> << >>,
           all_tables |-> None, result |-> None]

\* the test of _get_all_tables_cached, line 234
CacheValid(force_refresh, current_time) ==
    /\ ~force_refresh
    /\ table_cache.timestamp # None
    /\ current_time - table_cache.timestamp.i < CACHE_TTL_SECONDS
    /\ Truthy(table_cache.tables)

\* the wall clock advances
Tick ==
    /\ now + TickStep <= MaxTime
    /\ now' = now + TickStep
    /\ UNCHANGED <<table_cache, call, ncalls, lastWrite>>
    /\ UNCHANGED <<fetchVars, masking>>

\* the tool is invoked: up to the return on a valid cache, or up to
\* `await _get_all_tables()`
FindTables(c, force_refresh) ==
    /\ call[c].pc # "refreshing"
    /\ ncalls < MaxCalls
    /\ ncalls' = ncalls + 1
    /\ LET started == [NoCall EXCEPT
               !.force_refresh = force_refresh,
               !.current_time = now,
               !.cache_timestamp = table_cache.timestamp,
               !.cached_tables = table_cache.tables,
               !.fresh = /\ ~force_refresh
                         /\ table_cache.timestamp # None
                         /\ ~lastWrite.failed
                         /\ now - table_cache.timestamp.i < CACHE_TTL_SECONDS]
       IN  IF CacheValid(force_refresh, now)
           THEN call' = [call EXCEPT ![c] = [started EXCEPT
                            !.pc = "returned",
                            !.result = Matches(table_cache.tables, DefaultLimit)]]
           ELSE call' = [call EXCEPT ![c] = [started EXCEPT !.pc = "refreshing"]]
    /\ UNCHANGED <<table_cache, now, lastWrite>>
    /\ UNCHANGED <<fetchVars, masking>>

\* Refreshed that never lets the timestamp of the cache go back
RefreshedNewest(c, out) ==
    /\ call[c].pc = "refreshing"
    /\ LET r == _get_all_tables(out)
       IN  IF r.value.t = "exc"
           THEN /\ call' = [call EXCEPT ![c].pc = "raised",
                                        ![c].walked = r.walked,
                                        ![c].catalogs = r.catalogs,
                                        ![c].catalog_names = r.catalog_names,
                                        ![c].catalog_schemas = r.catalog_schemas,
                                        ![c].result = r.value]
                /\ UNCHANGED <<table_cache, lastWrite>>
           ELSE /\ table_cache' = [tables |-> r.value,
                                   timestamp |->
                                       IF /\ table_cache.timestamp # None
                                          /\ table_cache.timestamp.i > call[c].current_time
                                       THEN table_cache.timestamp
                                       ELSE Num(call[c].current_time)]
                /\ lastWrite' = [by |-> c, walked |-> r.walked,
                                 failed |-> \E st \in {"catalogs", "schemas", "tables"} :
                                                out[st] = "fail"]
                /\ call' = [call EXCEPT ![c].pc = "returned",
                                        ![c].walked = r.walked,
                                        ![c].catalogs = r.catalogs,
                                        ![c].catalog_names = r.catalog_names,
                                        ![c].catalog_schemas = r.catalog_schemas,
                                        ![c].all_tables = r.value,
                                        ![c].result = Matches(r.value, DefaultLimit)]
    /\ UNCHANGED <<now, ncalls>>
    /\ UNCHANGED <<fetchVars, masking>>

\* _get_all_tables has returned or raised: the cache is written, or the
\* exception leaves the tool
Refreshed(c, out) ==
    /\ call[c].pc = "refreshing"
    /\ LET r == _get_all_tables(out)
       IN  IF r.value.t = "exc"
           THEN /\ call' = [call EXCEPT ![c].pc = "raised",
                                        ![c].walked = r.walked,
                                        ![c].catalogs = r.catalogs,
                                        ![c].catalog_names = r.catalog_names,
                                        ![c].catalog_schemas = r.catalog_schemas,
                                        ![c].result = r.value]
                /\ UNCHANGED <<table_cache, lastWrite>>
           ELSE /\ table_cache' = [tables |-> r.value,
                                   timestamp |-> Num(call[c].current_time)]
                /\ lastWrite' = [by |-> c, walked |-> r.walked,
                                 failed |-> \E st \in {"catalogs", "schemas", "tables"} :
                                                out[st] = "fail"]
                /\ call' = [call EXCEPT ![c].pc = "returned",
                                        ![c].walked = r.walked,
                                        ![c].catalogs = r.catalogs,
                                        ![c].catalog_names = r.catalog_names,
                                        ![c].catalog_schemas = r.catalog_schemas,
                                        ![c].all_tables = r.value,
                                        ![c].result = Matches(r.value, DefaultLimit)]
    /\ UNCHANGED <<now, ncalls>>
    /\ UNCHANGED <<fetchVars, masking>>

NextCache ==
    \/ Tick
    \/ \E c \in Callers :
           \/ \E force_refresh \in BOOLEAN : FindTables(c, force_refresh)
           \/ \E out \in [catalogs : Outcomes, schemas : Outcomes, tables : Outcomes] :
                  Refreshed(c, out)

(***************************************************************************)
(* One call of utils.mask_api_response on a value and a mask.              *)
(***************************************************************************)
NoMasking == [pc |-> "idle", data |-> None, mask |-> None, out |-> None]

\* the function is called and returns
MaskResponse ==
    /\ masking.pc = "called"
    /\ masking' = [masking EXCEPT !.pc = "returned",
                                  !.out = mask_api_response(masking.data, masking.mask)]
    /\ UNCHANGED <<fetchVars, cacheVars>>

NextMask == MaskResponse

(***************************************************************************)
(* Initial states: the environment and the invocations.                    *)
(***************************************************************************)
Envs == {[host |-> TRUE, token |-> TRUE], [host |-> FALSE, token |-> TRUE],
         [host |-> TRUE, token |-> FALSE]}

IdsOf(kind) ==
    CASE kind = "get_schemas_in_catalogs" -> {Str("c1"), Str("c2")}
      [] kind = "get_tables_in_catalogs_schemas" -> {Str("c1.s1"), Str("c2.s1"), Str("c1")}
      [] kind = "get_tables_details" -> {Str("c1.s1.t1"), Str("c2.s1.t1")}
      [] OTHER -> {Num(1), Num(2), Num(3)}

Amounts == {0 - 1, 0, 2, max_n_recent + 1}

SeqsUpTo(S, n) == UNION {[1..k -> S] : k \in 0..n}

Requests(n) ==
    {[kind |-> k, ids |-> << >>, amount |-> 0] : k \in SingleKinds}
    \cup UNION {{[kind |-> k, ids |-> ids, amount |-> 0] : ids \in SeqsUpTo(IdsOf(k), n)} :
                 k \in FanOutKinds \ {"get_job_runs"}}
    \cup {[kind |-> "get_job_runs", ids |-> ids, amount |-> a] :
             ids \in SeqsUpTo(IdsOf("get_job_runs"), n), a \in Amounts}

\* n job identifiers, not in ascending order
JobIds(n) == [i \in 1..n |-> Num(IF i = 1 THEN n ELSE i - 1)]

\* the module-level _table_cache, before any call
NoWrite == [by |-> 0, walked |-> 0, failed |-> FALSE]

Idle ==
    /\ table_cache = [tables |-> EmptyList, timestamp |-> None]
    /\ now = 0
    /\ call = [c \in Callers |-> NoCall]
    /\ ncalls = 0
    /\ lastWrite = NoWrite
    /\ opPc = [o \in Ops |-> "idle"]
    /\ opResult = [o \in Ops |-> None]
    /\ semaphore = [o \in Ops |-> 0]
    /\ session = [o \in Ops |-> "none"]
    /\ gatherExc = [o \in Ops |-> None]
    /\ fetch = [o \in Ops |-> << >>]
    /\ overtaken = [o \in Ops |-> FALSE]

\* one invocation of any tool
Init ==
    /\ Idle
    /\ masking = NoMasking
    /\ env \in Envs
    /\ \E r \in Requests(MaxIds) : req = [o \in Ops |-> IF o = 1 THEN r ELSE NoReq]
    /\ faults = MaxFaults

Spec == Init /\ [][Next]_vars

\* one fan-out over more identifiers than the semaphore has slots
InitCeiling ==
    /\ Idle
    /\ masking = NoMasking
    /\ env = [host |-> TRUE, token |-> TRUE]
    /\ req = [o \in Ops |-> IF o = 1
                            THEN [kind |-> "get_job_details", ids |-> JobIds(CeilingIds),
                                  amount |-> 0]
                            ELSE NoReq]
    /\ faults = CeilingFaults

SpecCeiling == InitCeiling /\ [][Next]_vars

\* the same under a scheduler that runs a step whenever one can be taken:
\* the event loop resumes a ready coroutine, the remote answers every
\* request and every sleep ends
SpecLive == InitCeiling /\ [][Next]_vars /\ WF_vars(Next)

\* two fan-outs running concurrently in the process
InitProcess ==
    /\ Idle
    /\ masking = NoMasking
    /\ env = [host |-> TRUE, token |-> TRUE]
    /\ req = [o \in Ops |-> [kind |-> "get_job_details", ids |-> JobIds(ProcessIds),
                             amount |-> 0]]
    /\ faults = CeilingFaults

SpecProcess == InitProcess /\ [][Next]_vars

\* fetches that the remote may throttle until they give up
InitBackoff ==
    /\ Idle
    /\ masking = NoMasking
    /\ env \in Envs
    /\ req = [o \in Ops |-> IF o = 1
                            THEN [kind |-> "get_job_details", ids |-> JobIds(BackoffIds),
                                  amount |-> 0]
                            ELSE NoReq]
    /\ faults = BackoffIds * max_retries

SpecBackoff == InitBackoff /\ [][Next]_vars

\* find-tables-by-name invocations, up to two at a time, while time passes
InitCache ==
    /\ Idle
    /\ masking = NoMasking
    /\ env = [host |-> TRUE, token |-> TRUE]
    /\ req = [o \in Ops |-> NoReq]
    /\ faults = 0

SpecCache == InitCache /\ [][NextCache]_vars

\* keys of the dicts given to mask_api_response
MaskKeys == {"a", "b"}

\* JSON values nested at most `depth` deep
RECURSIVE Trees(_)
Trees(depth) ==
    IF depth = 0 THEN {Num(1)}
    ELSE LET sub == Trees(depth - 1)
         IN  sub
             \cup {Dict(f) : f \in UNION {[S -> sub] : S \in SUBSET MaskKeys}}
             \cup {List(l) : l \in UNION {[1..n -> sub] : n \in 0..MaskListLen}}

\* masks nested at most `depth` deep: the leaf {}, the list [] that
\* response_masks.py gives "tables" and "tasks", and dicts of masks
RECURSIVE Masks(_)
Masks(depth) ==
    IF depth = 0 THEN {Leaf, EmptyList}
    ELSE LET sub == Masks(depth - 1)
         IN  sub \cup {Dict(f) : f \in UNION {[S -> sub] : S \in SUBSET MaskKeys}}

\* a value, or a dict with one field that holds a value
MaskData(depth) == Trees(depth) \cup {Dict([a |-> x]) : x \in Trees(depth)}

\* mask_api_response is called on any value with any mask
InitMask ==
    /\ Idle
    /\ env = [host |-> TRUE, token |-> TRUE]
    /\ req = [o \in Ops |-> NoReq]
    /\ faults = 0
    /\ \E data \in MaskData(MaskDepth) : \E mask \in Masks(MaskDepth) :
           masking = [NoMasking EXCEPT !.pc = "called", !.data = data, !.mask = mask]

SpecMask == InitMask /\ [][NextMask]_vars

(***************************************************************************)
(* Properties.                                                             *)
(***************************************************************************)
Variants == {"full", "empty"}

\* what the coroutine for the i-th identifier of r can return
FetchValues(r, i) ==
    {FromEndpoint(r.kind, RemoteBody(r.kind, FetchId(r, i), v), r.amount) : v \in Variants}

IsEnvelope(x) == DOMAIN x = {"success", "content", "error"}

\* C1: within one fan-out operation the number of requests in flight never
\* exceeds the capacity of the semaphore, max_concurrent_requests, however
\* many identifiers it has and whether its fetches retry or fail.
C1_InFlightWithinCapacity ==
    \A o \in Ops : InFlight(o) <= max_concurrent_requests

\* all slots are taken by requests in flight while another fetch of the
\* same operation waits for one
C1_Witness ==
    \E o \in Ops :
        /\ InFlight(o) = max_concurrent_requests
        /\ \E i \in DOMAIN fetch[o] : fetch[o][i].pc = "acquire"

\* requests in flight in the whole process
TotalInFlight ==
    Cardinality(UNION {{<<o, i>> : i \in InFlightOf(o)} : o \in Ops})

\* C2: the ceiling is process-wide: the requests in flight, summed over all
\* the operations running concurrently, never exceed max_concurrent_requests.
C2_ProcessWideCeiling ==
    TotalInFlight <= max_concurrent_requests

\* C3: a fetch answered 429 exactly k < max_retries times and then with a
\* success returns the (masked) body, after sleeps that sum to
\* base_delay * (2^k - 1).
C3_BackoffSum ==
    \A o \in Ops : \A i \in DOMAIN fetch[o] :
        fetch[o][i].pc = "done" =>
            /\ fetch[o][i].throttled < max_retries
            /\ fetch[o][i].slept = base_delay * (2 ^ fetch[o][i].throttled - 1)
            /\ fetch[o][i].result \in FetchValues(req[o], i)

\* a fetch returned after the largest number of 429 answers that allows it
C3_Witness ==
    \E o \in Ops : \E i \in DOMAIN fetch[o] :
        /\ fetch[o][i].pc = "done"
        /\ fetch[o][i].throttled = max_retries - 1

\* C4: a fetch answered 429 on max_retries consecutive attempts has sent
\* exactly max_retries requests, sends no more, and ends with
\* MaxRetriesExceededError instead of a value; no fetch sends more than
\* max_retries requests.
C4_RetriesExhausted ==
    \A o \in Ops : \A i \in DOMAIN fetch[o] :
        /\ fetch[o][i].attempts <= max_retries
        /\ fetch[o][i].throttled >= max_retries =>
               /\ fetch[o][i].attempts = max_retries
               /\ fetch[o][i].pc \in {"sleep", "failed"}
               /\ fetch[o][i].pc = "failed" =>
                      fetch[o][i].result.type = "MaxRetriesExceededError"

\* a fetch gave up after max_retries requests
C4_Witness ==
    \E o \in Ops : \E i \in DOMAIN fetch[o] :
        /\ fetch[o][i].pc = "failed"
        /\ fetch[o][i].throttled = max_retries
        /\ fetch[o][i].result.type = "MaxRetriesExceededError"

OrderedKinds == {"get_job_details", "get_job_runs", "get_tables_details"}

\* C5: in the content returned by get_job_details, get_job_runs and
\* get_tables_details the i-th element is the result of the fetch for the
\* i-th identifier, in whatever order the fetches completed.
C5_OrderPreserved ==
    \A o \in Ops :
        (/\ opPc[o] = "returned"
         /\ req[o].kind \in OrderedKinds
         /\ opResult[o].success
         /\ opResult[o].content # None) =>
            /\ Len(opResult[o].content.lines) = Len(req[o].ids) + 1
            /\ \A i \in 1..Len(req[o].ids) :
                   /\ ToonRow(opResult[o].content, i) = fetch[o][i].result
                   /\ ToonRow(opResult[o].content, i) \in FetchValues(req[o], i)

\* an operation over two different identifiers returned its content after
\* a later fetch had completed before an earlier one
C5_Witness ==
    \E o \in Ops :
        /\ opPc[o] = "returned"
        /\ req[o].kind \in OrderedKinds
        /\ opResult[o].success
        /\ opResult[o].content # None
        /\ overtaken[o]
        /\ Len(req[o].ids) >= 2
        /\ req[o].ids[1] # req[o].ids[2]
        /\ fetch[o][1].result # fetch[o][2].result

\* C6: when a per-identifier fetch of an operation has failed, the result
\* of the operation is the failure envelope (success false, no content, an
\* error message) and none of the sibling results is in it.
C6_AllOrNothing ==
    \A o \in Ops :
        (/\ opPc[o] = "returned"
         /\ \E i \in DOMAIN fetch[o] : fetch[o][i].pc = "failed") =>
            /\ IsEnvelope(opResult[o])
            /\ opResult[o].success = FALSE
            /\ opResult[o].content = None
            /\ opResult[o].error # None
            /\ \E i \in DOMAIN fetch[o] :
                   /\ fetch[o][i].pc = "failed"
                   /\ opResult[o].error = Str(fetch[o][i].result.msg)

\* an operation returned after its second fetch had failed and its first
\* had returned a value
C6_Witness ==
    \E o \in Ops :
        /\ opPc[o] = "returned"
        /\ Len(fetch[o]) >= 2
        /\ fetch[o][1].pc = "done"
        /\ fetch[o][2].pc = "failed"
        /\ ~opResult[o].success

\* C7: a find_tables_by_name call without force_refresh, made less than
\* CACHE_TTL_SECONDS after a refresh none of whose fetches failed, issues no
\* remote call and is served from the cache; a call with force_refresh, or
\* with no refresh less than CACHE_TTL_SECONDS old, walks the catalogs again.
C7_CacheFreshness ==
    \A c \in Callers :
        call[c].pc # "idle" =>
            IF call[c].fresh
            THEN call[c].pc = "returned" /\ call[c].walked = 0
            ELSE call[c].pc # "refreshing" => call[c].walked >= 1

\* C8: find_tables_by_name never raises: whatever the three operations of
\* the walk answer, the call returns a list of matches, empty when the
\* refresh produced no table list.
C8_FindTablesNeverRaises ==
    \A c \in Callers :
        /\ call[c].pc # "raised"
        /\ call[c].pc = "returned" => call[c].result.t = "list"

\* C9: every tool returns the envelope {success, content, error}, with
\* content set only if success is true and error set only if it is false.
EnvelopeOk(x) ==
    /\ IsEnvelope(x)
    /\ x.success \in BOOLEAN
    /\ x.content # None => x.success
    /\ x.error # None => ~x.success

C9_EveryToolReturnsEnvelope ==
    /\ \A o \in Ops : opPc[o] = "returned" => EnvelopeOk(opResult[o])
    /\ \A c \in Callers : call[c].pc = "returned" => EnvelopeOk(call[c].result)

\* C10: no tool invocation ends by raising: every error, a rejected
\* argument included, comes back as the failure envelope.
C10_NoToolRaises ==
    /\ \A o \in Ops :
           /\ opPc[o] # "raised"
           /\ (opPc[o] = "returned" /\ gatherExc[o] # None) =>
                  (IsEnvelope(opResult[o]) /\ ~opResult[o].success /\ opResult[o].error # None)
    /\ \A c \in Callers : call[c].pc # "raised"

\* C11: a field whose mask node is the leaf {} is kept with its value
\* unchanged, whether the value is a scalar, a dict or a list of dicts.
C11_LeafKeepsValue ==
    (/\ masking.pc = "returned"
     /\ masking.data.t = "dict"
     /\ masking.mask.t = "dict") =>
        \A key \in (DOMAIN masking.mask.d) \cap (DOMAIN masking.data.d) :
            masking.mask.d[key] = Leaf =>
                /\ key \in DOMAIN masking.out.d
                /\ masking.out.d[key] = masking.data.d[key]

\* every key of out, at any path, is a key of data and of mask at that path;
\* a list is transparent: its elements are on the path of the list
RECURSIVE KeysSound(_, _, _)
KeysSound(out, data, mask) ==
    CASE out.t = "dict" ->
            \A key \in DOMAIN out.d :
                /\ data.t = "dict" /\ key \in DOMAIN data.d
                /\ mask.t = "dict" /\ key \in DOMAIN mask.d
                /\ KeysSound(out.d[key], data.d[key], mask.d[key])
      [] out.t = "list" ->
            /\ data.t = "list"
            /\ Len(out.l) = Len(data.l)
            /\ \A j \in 1..Len(out.l) : KeysSound(out.l[j], data.l[j], mask)
      [] OTHER -> TRUE

\* C12: for any value and any mask, a mask with empty-dict or empty-list
\* nodes included, every key in the output of mask_api_response exists at
\* the same path in the value and in the mask.
C12_MaskKeySoundness ==
    masking.pc = "returned" => KeysSound(masking.out, masking.data, masking.mask)

\* the catalogs the remote marks as created by the system
SystemCatalogs ==
    LET listed == RemoteBody("get_catalogs", None, "full").d.catalogs.l
    IN  {listed[j].d.name : j \in {k \in 1..Len(listed) :
                                      listed[k].d.created_by = Str("System user")}}

\* the elements written in an encoded list
ToonItems(text) ==
    {text.lines[j].line : j \in {k \in 1..Len(text.lines) : "line" \in DOMAIN text.lines[k]}}

\* the path names a system catalog or the schema information_schema
Excluded(path) ==
    \/ Str(SplitDot(path.s)[1]) \in SystemCatalogs
    \/ Len(SplitDot(path.s)) >= 2 /\ SplitDot(path.s)[2] = "information_schema"

C14_EmptyResultCached ==
    \A c \in Callers :
        (/\ call[c].pc # "idle"
         /\ ~call[c].force_refresh
         /\ call[c].cache_timestamp # None
         /\ call[c].current_time - call[c].cache_timestamp.i < CACHE_TTL_SECONDS
         /\ call[c].cached_tables = EmptyList) =>
            /\ call[c].pc = "returned"
            /\ call[c].walked = 0

\* C15: a fetch whose response had a status that is neither 429 nor a
\* success has raised the HTTP error on that attempt: every request it sent
\* before was answered 429, it slept only for those, and it has no value.
C15_ErrorRaisesAtOnce ==
    \A o \in Ops : \A i \in DOMAIN fetch[o] :
        fetch[o][i].status \notin {0, 200, 429} =>
            /\ fetch[o][i].pc = "failed"
            /\ fetch[o][i].result.t = "exc"
            /\ fetch[o][i].result.type = "ClientResponseError"
            /\ fetch[o][i].attempts = fetch[o][i].throttled + 1
            /\ fetch[o][i].slept = base_delay * (2 ^ fetch[o][i].throttled - 1)

\* a fetch was answered 429, tried again and was answered 500, and its
\* operation has returned
C15_Witness ==
    \E o \in Ops : \E i \in DOMAIN fetch[o] :
        /\ fetch[o][i].status = 500
        /\ fetch[o][i].pc = "failed"
        /\ fetch[o][i].throttled = 1
        /\ fetch[o][i].attempts = 2
        /\ opPc[o] = "returned"

\* the fetch for the i-th identifier of r reaches get_with_backoff
CallsBackoff(r, i) ==
    ~(r.kind = "get_tables_in_catalogs_schemas" /\ Len(SplitDot(r.ids[i].s)) # 2)

\* C16: with DATABRICKS_HOST or DATABRICKS_TOKEN absent every fetch of an
\* operation fails with the configuration error before any network call:
\* it has sent no request, received no response and holds no slot, and no
\* slot of the operation's semaphore was taken.
C16_ConfigErrorBeforeNetwork ==
    (~env.host \/ ~env.token) =>
        \A o \in Ops :
            /\ Held(o) = 0
            /\ session[o] # "none" => semaphore[o] = max_concurrent_requests
            /\ \A i \in DOMAIN fetch[o] :
                   /\ fetch[o][i].pc = "failed"
                   /\ fetch[o][i].attempts = 0
                   /\ fetch[o][i].status = 0
                   /\ fetch[o][i].slept = 0
                   /\ CallsBackoff(req[o], i) =>
                          fetch[o][i].result =
                              Exc("ValueError",
                                  IF ~env.host
                                  THEN "DATABRICKS_HOST environment variable is not set"
                                  ELSE "DATABRICKS_TOKEN environment variable is not set")

\* an operation over two identifiers ran without the token and returned
\* the failure envelope
C16_Witness ==
    \E o \in Ops :
        /\ ~env.token
        /\ opPc[o] = "returned"
        /\ Len(fetch[o]) = 2
        /\ \A i \in DOMAIN fetch[o] : CallsBackoff(req[o], i) /\ fetch[o][i].attempts = 0
        /\ ~opResult[o].success
        /\ opResult[o].error = Str("DATABRICKS_TOKEN environment variable is not set")

\* C17: the cache entry is always one refresh's complete result: every
\* step that writes the cache is the end of one refresh and replaces the
\* entry by that refresh's table list together with the time that refresh
\* read at its start, so the entry is that of the refresh that wrote last.
C17_WholeSnapshot ==
    [][(table_cache' # table_cache \/ lastWrite' # lastWrite) =>
           \E c \in Callers :
               /\ call[c].pc = "refreshing"
               /\ call'[c].pc = "returned"
               /\ lastWrite'.by = c
               /\ table_cache' = [tables |-> call'[c].all_tables,
                                  timestamp |-> Num(call[c].current_time)]]_vars

\* two refreshes overlapped and ended in the opposite order: the one that
\* started first wrote last, and the entry is its result
C17_Witness ==
    /\ call[1].pc = "returned" /\ call[1].walked >= 1
    /\ call[2].pc = "returned" /\ call[2].walked >= 1
    /\ call[1].current_time < call[2].current_time
    /\ lastWrite.by = 1
    /\ table_cache = [tables |-> call[1].all_tables,
                      timestamp |-> Num(call[1].current_time)]

\* C18: a fan-out operation returns, and closes its session, only after
\* every one of its fetches has completed or failed by itself: none is
\* still waiting, sleeping or in flight, and none was aborted by the close.
C18_JoinBeforeReturn ==
    \A o \in Ops :
        opPc[o] = "returned" =>
            \A i \in DOMAIN fetch[o] :
                /\ fetch[o][i].pc \in {"done", "failed"}
                /\ fetch[o][i].pc = "failed" =>
                       fetch[o][i].result.type \notin {"ClientConnectionError", "RuntimeError"}

\* C19: a slot is held only while a request is in progress: the slots taken
\* from an operation's semaphore are as many as its requests in flight, so
\* a fetch in its backoff sleep holds none.
C19_SlotOnlyWhileInFlight ==
    \A o \in Ops :
        session[o] = "open" =>
            /\ max_concurrent_requests - semaphore[o] = InFlight(o)
            /\ \A i \in DOMAIN fetch[o] :
                   fetch[o][i].pc = "sleep" => Held(o) = InFlight(o)

\* some fetch of the operation is not blocked on the semaphore: if all its
\* unfinished fetches wait for a slot, a slot is free
SlotAvailable ==
    \A o \in Ops :
        LET unfinished == {i \in DOMAIN fetch[o] : fetch[o][i].pc \notin {"done", "failed"}}
        IN  (unfinished # {} /\ \A i \in unfinished : fetch[o][i].pc = "acquire") =>
                semaphore[o] > 0

\* every operation invoked has returned an envelope, each of its fetches
\* has returned or raised after at most max_retries requests, and every
\* slot is free
Finished ==
    \A o \in Ops :
        req[o].kind # "none" =>
            /\ opPc[o] = "returned"
            /\ IsEnvelope(opResult[o])
            /\ semaphore[o] = max_concurrent_requests
            /\ \A i \in DOMAIN fetch[o] :
                   /\ fetch[o][i].pc \in {"done", "failed"}
                   /\ fetch[o][i].attempts <= max_retries

\* C20: a fan-out over more identifiers than the semaphore has slots
\* terminates: no state has all its unfinished fetches blocked on the
\* semaphore, and under fair scheduling every fetch returns or raises after
\* at most max_retries requests and the operation returns an envelope.
C20_FanOutTerminates ==
    []SlotAvailable /\ <>[]Finished

\* an operation over more identifiers than slots returned its content
\* after one of its fetches had been throttled and had tried again
C20_Witness ==
    \E o \in Ops :
        /\ Len(req[o].ids) > max_concurrent_requests
        /\ Finished
        /\ opResult[o].success
        /\ \E i \in DOMAIN fetch[o] : fetch[o][i].throttled = 1 /\ fetch[o][i].attempts = 2

\* C21: for every n_recent the get-job-runs tool accepts, the run list
\* returned for each job has at most n_recent elements, hence at most
\* max_n_recent, however many runs the remote listed.
C21_RunsWithinNRecent ==
    \A o \in Ops :
        req[o].kind = "get_job_runs" =>
            \A i \in DOMAIN fetch[o] :
                fetch[o][i].pc = "done" =>
                    /\ Len(fetch[o][i].result.l) <= req[o].amount
                    /\ Len(fetch[o][i].result.l) <= max_n_recent

\* C22: the timestamp of the cache never decreases: every write stores a
\* timestamp greater than or equal to the one it replaces, also when two
\* refreshes overlap and end in the opposite order to that of their starts.
C22_TimestampMonotone ==
    [][(table_cache.timestamp # None /\ table_cache'.timestamp # None) =>
           table_cache'.timestamp.i >= table_cache.timestamp.i]_vars

====
